---- MODULE Spec2Model ----
(***************************************************************************)
(* Dice rolling engine: DiceParser.parse (regex token scan), DiceRoller    *)
(* (crypto.randomInt draws) and DiceService.roll (aggregation and          *)
(* advantage/disadvantage selection).                                      *)
(*                                                                         *)
(* Strings are sequences of one-character strings, so that trimming,       *)
(* lower-casing, the regex scan and parseInt are computed character by     *)
(* character as the code does.                                             *)
(***************************************************************************)
EXTENDS Integers, Sequences, FiniteSets, TLC

(***************************************************************************)
(* Bounds of the model.                                                    *)
(***************************************************************************)
\* largest number of tokens an input expression is built from
MaxItems == 2

(***************************************************************************)
(* Program constants.                                                      *)
(***************************************************************************)
MAX_DICE == 1000

MAX_SIDES == 10000

NONE == "none"

ADVANTAGE == "advantage"

DISADVANTAGE == "disadvantage"

AdvantageMode == {NONE, ADVANTAGE, DISADVANTAGE}

(***************************************************************************)
(* Characters.                                                             *)
(***************************************************************************)
DigitChars == <<"0", "1", "2", "3", "4", "5", "6", "7", "8", "9">>

Digits == {DigitChars[i] : i \in 1..10}

\* value of one decimal digit character
DigitVal(c) == (CHOOSE i \in 1..10 : DigitChars[i] = c) - 1

\* String.prototype.toLowerCase on one character
LowerChar(c) ==
  CASE c = "D" -> "d"
    [] c = "X" -> "x"
    [] c = "A" -> "a"
    [] c = "B" -> "b"
    [] c = "C" -> "c"
    [] OTHER -> c

\* String.prototype.toUpperCase on one character
UpperChar(c) ==
  CASE c = "d" -> "D"
    [] c = "x" -> "X"
    [] c = "a" -> "A"
    [] c = "b" -> "B"
    [] c = "c" -> "C"
    [] OTHER -> c

toLowerCase(s) == [i \in 1..Len(s) |-> LowerChar(s[i])]

toUpperCase(s) == [i \in 1..Len(s) |-> UpperChar(s[i])]

IsSpace(c) == c = " "

\* String.prototype.trim: drop the leading and the trailing white space
trim(s) ==
  LET nonSpace == {i \in 1..Len(s) : ~IsSpace(s[i])}
  IN  IF nonSpace = {} THEN <<>>
      ELSE LET first == CHOOSE i \in nonSpace : \A j \in nonSpace : i <= j
               last  == CHOOSE i \in nonSpace : \A j \in nonSpace : i >= j
           IN  SubSeq(s, first, last)

\* parseInt(text, 10) of a run of decimal digits
RECURSIVE parseDigits(_)
parseDigits(ds) ==
  IF ds = <<>> THEN 0
  ELSE parseDigits(SubSeq(ds, 1, Len(ds) - 1)) * 10 + DigitVal(ds[Len(ds)])

\* parseInt(text, 10) of a sign followed by decimal digits
parseSigned(text) ==
  IF text[1] = "-" THEN 0 - parseDigits(Tail(text)) ELSE parseDigits(Tail(text))

\* template literal `${n}` of a non-negative integer
RECURSIVE decimal(_)
decimal(n) ==
  IF n < 10 THEN <<DigitChars[n + 1]>>
  ELSE Append(decimal(n \div 10), DigitChars[(n % 10) + 1])

(***************************************************************************)
(* DICE_PATTERN = /(?<count>\d+)d(?<sides>\d+)|(?<modifier>[+-]\d+)/gi     *)
(* Positions are 0-based as in RegExp.lastIndex; s[p + 1] is the character *)
(* at position p.                                                          *)
(***************************************************************************)
\* position after the maximal run of digits that starts at position p
RECURSIVE digitsEnd(_, _)
digitsEnd(s, p) ==
  IF p < Len(s) /\ s[p + 1] \in Digits THEN digitsEnd(s, p + 1) ELSE p

NoMatch == [found |-> FALSE, index |-> 0, end |-> 0,
            count |-> <<>>, sides |-> <<>>, modifier |-> <<>>]

\* the match of the pattern anchored at position p, first alternative first
matchAt(s, p) ==
  LET cEnd == digitsEnd(s, p)
      sEnd == digitsEnd(s, cEnd + 1)
      mEnd == digitsEnd(s, p + 1)
  IN  IF /\ cEnd > p
         /\ cEnd < Len(s)
         /\ s[cEnd + 1] \in {"d", "D"}
         /\ sEnd > cEnd + 1
      THEN [found |-> TRUE, index |-> p, end |-> sEnd,
            count |-> SubSeq(s, p + 1, cEnd),
            sides |-> SubSeq(s, cEnd + 2, sEnd),
            modifier |-> <<>>]
      ELSE IF /\ p < Len(s)
              /\ s[p + 1] \in {"+", "-"}
              /\ mEnd > p + 1
      THEN [found |-> TRUE, index |-> p, end |-> mEnd,
            count |-> <<>>, sides |-> <<>>,
            modifier |-> SubSeq(s, p + 1, mEnd)]
      ELSE NoMatch

RECURSIVE exec(_, _)
\* the match found at position from, or else the search resumed after it
matchOrAdvance(m, s, from) == IF m.found THEN m ELSE exec(s, from + 1)

\* exec of a sticky pattern: a match at position from or none
execSticky(s, from) ==
  IF from >= Len(s) THEN NoMatch ELSE matchAt(s, from)

\* DICE_PATTERN.exec(s) with lastIndex = from: the leftmost match at or
\* after from, or no match
exec(s, from) ==
  IF from >= Len(s) THEN NoMatch
  ELSE matchOrAdvance(matchAt(s, from), s, from)

(***************************************************************************)
(* DiceExpressionModel and the errors of middleware/error-handler.         *)
(***************************************************************************)
\* new DiceExpressionModel(original, diceGroups, modifiers, isValid, errors)
DiceExpressionModel(original, diceGroups, modifiers, isValid, validationErrors) ==
  [kind |-> "expression", original |-> original, diceGroups |-> diceGroups,
   modifiers |-> modifiers, isValid |-> isValid,
   validationErrors |-> validationErrors, message |-> ""]

createInvalid(original, errors) ==
  DiceExpressionModel(original, <<>>, <<>>, FALSE, errors)

\* throw new ResourceLimitError(message), seen from the caller of parse
ResourceLimitError(original, message) ==
  [kind |-> "ResourceLimitError", original |-> original, diceGroups |-> <<>>,
   modifiers |-> <<>>, isValid |-> FALSE, validationErrors |-> <<>>,
   message |-> message]

(***************************************************************************)
(* DiceParser.parse                                                        *)
(***************************************************************************)
\* a loop body that checks only the count: a group is pushed whatever the
\* sides are
diceGroupTokenSidesUnchecked(acc, count, sides) ==
  LET e1 == IF count <= 0
            THEN Append(acc.validationErrors,
                   [field |-> "count",
                    message |-> "Invalid dice count: " \o ToString(count)
                                \o ". Must be positive."])
            ELSE acc.validationErrors
  IN  IF count > MAX_DICE
      THEN [acc EXCEPT !.validationErrors = e1, !.thrown = TRUE,
              !.message = "Dice count exceeds maximum of " \o ToString(MAX_DICE)]
      ELSE IF sides > MAX_SIDES
      THEN [acc EXCEPT !.validationErrors = e1, !.thrown = TRUE,
              !.message = "Die sides exceed maximum of " \o ToString(MAX_SIDES)]
      ELSE IF count > 0
      THEN [acc EXCEPT !.validationErrors = e1,
              !.diceGroups = Append(@, [count |-> count, sides |-> sides])]
      ELSE [acc EXCEPT !.validationErrors = e1]

\* a loop body that throws on a non-positive count instead of recording it
diceGroupTokenRaisesOnZero(acc, count, sides) ==
  IF count <= 0 \/ count > MAX_DICE
  THEN [acc EXCEPT !.thrown = TRUE,
          !.message = "Dice count exceeds maximum of " \o ToString(MAX_DICE)]
  ELSE IF sides > MAX_SIDES
  THEN [acc EXCEPT !.thrown = TRUE,
          !.message = "Die sides exceed maximum of " \o ToString(MAX_SIDES)]
  ELSE IF sides > 0
  THEN [acc EXCEPT !.diceGroups = Append(@, [count |-> count, sides |-> sides])]
  ELSE [acc EXCEPT !.validationErrors =
          Append(@, [field |-> "sides",
                     message |-> "Invalid die sides: " \o ToString(sides)
                                 \o ". Must be positive."])]

\* a loop body that raises a limit only while no validation error has been
\* collected
diceGroupTokenErrorsFirst(acc, count, sides) ==
  LET e1 == IF count <= 0
            THEN Append(acc.validationErrors,
                   [field |-> "count",
                    message |-> "Invalid dice count: " \o ToString(count)
                                \o ". Must be positive."])
            ELSE acc.validationErrors
      e2 == IF sides <= 0
            THEN Append(e1,
                   [field |-> "sides",
                    message |-> "Invalid die sides: " \o ToString(sides)
                                \o ". Must be positive."])
            ELSE e1
  IN  IF e2 # <<>>
      THEN [acc EXCEPT !.validationErrors = e2]
      ELSE IF count > MAX_DICE
      THEN [acc EXCEPT !.thrown = TRUE,
              !.message = "Dice count exceeds maximum of " \o ToString(MAX_DICE)]
      ELSE IF sides > MAX_SIDES
      THEN [acc EXCEPT !.thrown = TRUE,
              !.message = "Die sides exceed maximum of " \o ToString(MAX_SIDES)]
      ELSE [acc EXCEPT !.diceGroups = Append(@, [count |-> count, sides |-> sides])]

\* a loop body that checks only the sides: a group is pushed whatever the
\* count is, as long as it is within the limit
diceGroupTokenCountUnchecked(acc, count, sides) ==
  LET e2 == IF sides <= 0
            THEN Append(acc.validationErrors,
                   [field |-> "sides",
                    message |-> "Invalid die sides: " \o ToString(sides)
                                \o ". Must be positive."])
            ELSE acc.validationErrors
  IN  IF count > MAX_DICE
      THEN [acc EXCEPT !.validationErrors = e2, !.thrown = TRUE,
              !.message = "Dice count exceeds maximum of " \o ToString(MAX_DICE)]
      ELSE IF sides > MAX_SIDES
      THEN [acc EXCEPT !.validationErrors = e2, !.thrown = TRUE,
              !.message = "Die sides exceed maximum of " \o ToString(MAX_SIDES)]
      ELSE IF sides > 0
      THEN [acc EXCEPT !.validationErrors = e2,
              !.diceGroups = Append(@, [count |-> count, sides |-> sides])]
      ELSE [acc EXCEPT !.validationErrors = e2]

\* the body of the while loop for one dice-notation match, count and sides
\* being the parsed integers
diceGroupToken(acc, count, sides) ==
  LET e1 == IF count <= 0
            THEN Append(acc.validationErrors,
                   [field |-> "count",
                    message |-> "Invalid dice count: " \o ToString(count)
                                \o ". Must be positive."])
            ELSE acc.validationErrors
      e2 == IF sides <= 0
            THEN Append(e1,
                   [field |-> "sides",
                    message |-> "Invalid die sides: " \o ToString(sides)
                                \o ". Must be positive."])
            ELSE e1
  IN  IF count > MAX_DICE
      THEN [acc EXCEPT !.validationErrors = e2, !.thrown = TRUE,
              !.message = "Dice count exceeds maximum of " \o ToString(MAX_DICE)]
      ELSE IF sides > MAX_SIDES
      THEN [acc EXCEPT !.validationErrors = e2, !.thrown = TRUE,
              !.message = "Die sides exceed maximum of " \o ToString(MAX_SIDES)]
      ELSE IF count > 0 /\ sides > 0
      THEN [acc EXCEPT !.validationErrors = e2,
              !.diceGroups = Append(@, [count |-> count, sides |-> sides])]
      ELSE [acc EXCEPT !.validationErrors = e2]

\* const count = parseInt(match.groups.count, 10), sides likewise
diceToken(acc, m) ==
  diceGroupToken(acc, parseDigits(m.count), parseDigits(m.sides))

\* the body of the while loop for one modifier match
modifierToken(acc, m) ==
  [acc EXCEPT !.modifiers = Append(@, parseSigned(m.modifier))]

\* the body of the while loop for the match m
token(acc, m) ==
  IF m.count # <<>> /\ m.sides # <<>> THEN diceToken(acc, m)
  ELSE IF m.modifier # <<>> THEN modifierToken(acc, m)
  ELSE acc

RECURSIVE scan(_, _)
\* the loop after one token: a throw leaves it, otherwise exec runs again
afterToken(trimmed, acc) == IF acc.thrown THEN acc ELSE scan(trimmed, acc)

\* one evaluation of the loop condition with the match m that exec returned:
\* a failed exec resets lastIndex to 0 and ends the loop, a match moves
\* lastIndex to its end
iteration(trimmed, acc, m) ==
  IF ~m.found THEN [acc EXCEPT !.lastIndex = 0]
  ELSE afterToken(trimmed,
         token([acc EXCEPT !.hasValidTokens = TRUE, !.lastIndex = m.end], m))

\* while ((match = DICE_PATTERN.exec(trimmed)) !== null) { ... }
scan(trimmed, acc) == iteration(trimmed, acc, exec(trimmed, acc.lastIndex))

\* a scan that starts where the last call left the pattern
resetLastIndexKept(lastIndex) == lastIndex

\* this.DICE_PATTERN.lastIndex = 0
resetLastIndex(lastIndex) == 0

\* the state of the scan before the first exec
scanStart(lastIndex) ==
  [diceGroups |-> <<>>, modifiers |-> <<>>, validationErrors |-> <<>>,
   hasValidTokens |-> FALSE, lastIndex |-> resetLastIndex(lastIndex),
   thrown |-> FALSE, message |-> ""]

\* normalisation that forgets to trim
normalizeUntrimmed(expression) == toLowerCase(expression)

\* expression.trim().toLowerCase()
normalize(expression) == toLowerCase(trim(expression))

\* an end of parse that forgets the error for an expression with no dice group
afterScanModifiersOnly(expression, acc) ==
  IF acc.thrown
  THEN [result |-> ResourceLimitError(expression, acc.message),
        lastIndex |-> acc.lastIndex]
  ELSE IF ~acc.hasValidTokens
  THEN [result |-> createInvalid(expression,
                     <<[field |-> "expression",
                        message |-> "Invalid dice notation format"]>>),
        lastIndex |-> acc.lastIndex]
  ELSE IF acc.validationErrors # <<>>
  THEN [result |-> createInvalid(expression, acc.validationErrors),
        lastIndex |-> acc.lastIndex]
  ELSE [result |-> DiceExpressionModel(expression, acc.diceGroups,
                     acc.modifiers, TRUE, <<>>),
        lastIndex |-> acc.lastIndex]

\* the part of DiceParser.parse after the while loop, acc being the state
\* the loop ended in
afterScan(expression, acc) ==
  LET errors == IF Len(acc.diceGroups) = 0
                THEN Append(acc.validationErrors,
                       [field |-> "expression",
                        message |-> "Expression must contain at least one dice group (e.g., 1d6)"])
                ELSE acc.validationErrors
  IN  IF acc.thrown
      THEN [result |-> ResourceLimitError(expression, acc.message),
            lastIndex |-> acc.lastIndex]
      ELSE IF ~acc.hasValidTokens
      THEN [result |-> createInvalid(expression,
                         <<[field |-> "expression",
                            message |-> "Invalid dice notation format"]>>),
            lastIndex |-> acc.lastIndex]
      ELSE IF errors # <<>>
      THEN [result |-> createInvalid(expression, errors),
            lastIndex |-> acc.lastIndex]
      ELSE [result |-> DiceExpressionModel(expression, acc.diceGroups,
                         acc.modifiers, TRUE, <<>>),
            lastIndex |-> acc.lastIndex]

\* a parse with no early return for an empty text
parseTrimmedNoEmptyCheck(expression, lastIndex, trimmed) ==
  afterScan(expression, scan(trimmed, scanStart(lastIndex)))

\* DiceParser.parse after the first line, trimmed being the normalised text
parseTrimmed(expression, lastIndex, trimmed) ==
  IF trimmed = <<>>
  THEN [result |-> createInvalid(expression,
                     <<[field |-> "expression",
                        message |-> "Expression cannot be empty"]>>),
        lastIndex |-> lastIndex]
  ELSE afterScan(expression, scan(trimmed, scanStart(lastIndex)))

\* DiceParser.parse(expression) entered with DICE_PATTERN.lastIndex = lastIndex:
\* the result (or the error thrown) and the lastIndex it leaves behind
parseFrom(expression, lastIndex) ==
  parseTrimmed(expression, lastIndex, normalize(expression))

\* the value DiceParser.parse(expression) returns or the error it throws
parse(expression) == parseFrom(expression, 0).result


(***************************************************************************)
(* DiceRoller                                                              *)
(***************************************************************************)
RECURSIVE sum(_)
\* array.reduce((sum, x) => sum + x, 0)
sum(xs) == IF xs = <<>> THEN 0 ELSE xs[1] + sum(Tail(xs))

\* randomInt read as if it started one below its lower end
randomIntFromZero(min, max) == (min - 1)..(max - 1)

\* randomInt read as if its upper end were inclusive
randomIntInclusive(min, max) == min..max

\* crypto.randomInt(min, max): any integer of [min, max)
randomInt(min, max) == min..(max - 1)

\* new RollResultModel(notation, rolls, subtotal)
RollResultModel(notation, rolls, subtotal) ==
  [notation |-> notation, rolls |-> rolls, subtotal |-> subtotal]

\* a roller that writes the notation with a capital D
rollDiceGroupCapitalD(diceGroup) ==
  { RollResultModel(decimal(diceGroup.count) \o <<"D">> \o decimal(diceGroup.sides),
                    rolls, sum(rolls)) :
      rolls \in [1..diceGroup.count -> randomInt(1, diceGroup.sides + 1)] }

\* the results DiceRoller.rollDiceGroup(diceGroup) can return: count draws of
\* randomInt(1, sides + 1) pushed in draw order
rollDiceGroup(diceGroup) ==
  { RollResultModel(decimal(diceGroup.count) \o <<"d">> \o decimal(diceGroup.sides),
                    rolls, sum(rolls)) :
      rolls \in [1..diceGroup.count -> randomInt(1, diceGroup.sides + 1)] }

\* the pairs DiceRoller.rollWithAdvantage(diceGroup) can return
rollWithAdvantage(diceGroup) ==
  { [primary |-> p, alternate |-> a] :
      p \in rollDiceGroup(diceGroup), a \in rollDiceGroup(diceGroup) }

\* parsed.diceGroups.map((diceGroup) => DiceRoller.rollDiceGroup(diceGroup))
RECURSIVE rollAll(_)
\* a map that rolls the groups from the last to the first
rollAllBackwards(diceGroups) ==
  IF diceGroups = <<>> THEN {<<>>}
  ELSE { rest \o <<r>> : r \in rollDiceGroup(diceGroups[1]),
                         rest \in rollAll(Tail(diceGroups)) }

rollAll(diceGroups) ==
  IF diceGroups = <<>> THEN {<<>>}
  ELSE { <<r>> \o rest : r \in rollDiceGroup(diceGroups[1]),
                         rest \in rollAll(Tail(diceGroups)) }

(***************************************************************************)
(* DiceService.roll                                                        *)
(***************************************************************************)
\* new DiceRollModel(expression, results, modifiers, total, advantageMode);
\* alternateRoll is the empty sequence when undefined, else one record
DiceRollModel(expression, results, modifiers, total, advantageMode) ==
  [expression |-> expression, results |-> results, modifiers |-> modifiers,
   total |-> total, advantageMode |-> advantageMode, alternateRoll |-> <<>>]

NoRecord == DiceRollModel(<<>>, <<>>, <<>>, 0, NONE)

\* a join that keeps the first message only
joinFirstOnly(errors) == IF errors = <<>> THEN "" ELSE errors[1].message

\* errors.map((e) => e.message).join("; ")
RECURSIVE join(_)
join(errors) ==
  IF errors = <<>> THEN ""
  ELSE IF Len(errors) = 1 THEN errors[1].message
  ELSE errors[1].message \o "; " \o join(Tail(errors))

\* a candidate total taken as a magnitude
candidateTotalMagnitude(result, modifiers) ==
  IF result.subtotal + sum(modifiers) < 0
  THEN 0 - (result.subtotal + sum(modifiers))
  ELSE result.subtotal + sum(modifiers)

\* a candidate total that leaves the modifiers out
candidateTotalDiceOnly(result, modifiers) == result.subtotal

\* total of one candidate: subtotal + parsed.modifiers.reduce(...)
candidateTotal(result, modifiers) == result.subtotal + sum(modifiers)

\* advantage decided by a strict comparison: a tie goes to the second roll
keepPrimaryStrictAdvantage(advantageMode, primaryTotal, alternateTotal) ==
  IF advantageMode = ADVANTAGE
  THEN primaryTotal > alternateTotal
  ELSE primaryTotal <= alternateTotal

\* disadvantage decided by a strict comparison: a tie goes to the second roll
keepPrimaryStrictDisadvantage(advantageMode, primaryTotal, alternateTotal) ==
  IF advantageMode = ADVANTAGE
  THEN primaryTotal >= alternateTotal
  ELSE primaryTotal < alternateTotal

\* the branch condition that keeps the first roll as the main roll
keepPrimary(advantageMode, primaryTotal, alternateTotal) ==
  IF advantageMode = ADVANTAGE
  THEN primaryTotal >= alternateTotal
  ELSE primaryTotal <= alternateTotal

\* selection that never attaches the alternate roll
selectRollUnlinked(expression, parsed, advantageMode, pair) ==
  LET primaryTotal == candidateTotal(pair.primary, parsed.modifiers)
      alternateTotal == candidateTotal(pair.alternate, parsed.modifiers)
  IN  IF keepPrimary(advantageMode, primaryTotal, alternateTotal)
      THEN DiceRollModel(expression, <<pair.primary>>, parsed.modifiers,
                         primaryTotal, advantageMode)
      ELSE DiceRollModel(expression, <<pair.alternate>>, parsed.modifiers,
                         alternateTotal, advantageMode)

\* selection that reports the selected roll as its own alternate
selectRollSameTwice(expression, parsed, advantageMode, pair) ==
  LET primaryTotal == candidateTotal(pair.primary, parsed.modifiers)
      alternateTotal == candidateTotal(pair.alternate, parsed.modifiers)
      first == DiceRollModel(expression, <<pair.primary>>, parsed.modifiers,
                             primaryTotal, advantageMode)
      second == DiceRollModel(expression, <<pair.alternate>>, parsed.modifiers,
                              alternateTotal, advantageMode)
  IN  IF keepPrimary(advantageMode, primaryTotal, alternateTotal)
      THEN [first EXCEPT !.alternateRoll = <<first>>]
      ELSE [second EXCEPT !.alternateRoll = <<second>>]

\* selection whose alternate record is built in mode none
selectRollAlternatePlain(expression, parsed, advantageMode, pair) ==
  LET primaryTotal == candidateTotal(pair.primary, parsed.modifiers)
      alternateTotal == candidateTotal(pair.alternate, parsed.modifiers)
      first == DiceRollModel(expression, <<pair.primary>>, parsed.modifiers,
                             primaryTotal, advantageMode)
      second == DiceRollModel(expression, <<pair.alternate>>, parsed.modifiers,
                              alternateTotal, advantageMode)
  IN  IF keepPrimary(advantageMode, primaryTotal, alternateTotal)
      THEN [first EXCEPT !.alternateRoll = <<[second EXCEPT !.advantageMode = NONE]>>]
      ELSE [second EXCEPT !.alternateRoll = <<[first EXCEPT !.advantageMode = NONE]>>]

\* the record DiceService.roll builds from the two rolls of the group
selectRoll(expression, parsed, advantageMode, pair) ==
  LET primaryTotal == candidateTotal(pair.primary, parsed.modifiers)
      alternateTotal == candidateTotal(pair.alternate, parsed.modifiers)
      first == DiceRollModel(expression, <<pair.primary>>, parsed.modifiers,
                             primaryTotal, advantageMode)
      second == DiceRollModel(expression, <<pair.alternate>>, parsed.modifiers,
                              alternateTotal, advantageMode)
  IN  IF keepPrimary(advantageMode, primaryTotal, alternateTotal)
      THEN [first EXCEPT !.alternateRoll = <<second>>]
      ELSE [second EXCEPT !.alternateRoll = <<first>>]

\* a plain roll whose total is clamped to the largest total of one group
plainRollClamped(expression, parsed, advantageMode, results) ==
  LET total == sum([i \in 1..Len(results) |-> results[i].subtotal])
                 + sum(parsed.modifiers)
  IN  DiceRollModel(expression, results, parsed.modifiers,
                    IF total > MAX_DICE * MAX_SIDES
                    THEN MAX_DICE * MAX_SIDES ELSE total,
                    advantageMode)

\* the record DiceService.roll builds in mode none
plainRoll(expression, parsed, advantageMode, results) ==
  DiceRollModel(expression, results, parsed.modifiers,
                sum([i \in 1..Len(results) |-> results[i].subtotal])
                  + sum(parsed.modifiers),
                advantageMode)

\* what a call of DiceService.roll ends in: a returned record or a thrown error
Returned(record, rolled) ==
  [kind |-> "record", message |-> "", record |-> record, rolled |-> rolled]

Thrown(kind, message) ==
  [kind |-> kind, message |-> message, record |-> NoRecord, rolled |-> <<>>]

\* a service that converts the parser's resource-limit error
rollOutcomesWrapped(expression, advantageMode, parsed) ==
  IF parsed.kind = "ResourceLimitError"
  THEN {Thrown("ValidationError", parsed.message)}
  ELSE IF ~parsed.isValid
  THEN {Thrown("ValidationError", join(parsed.validationErrors))}
  ELSE IF advantageMode # NONE
  THEN IF Len(parsed.diceGroups) # 1
       THEN {Thrown("ValidationError",
               "Advantage/disadvantage only supports single dice group (e.g., 1d20)")}
       ELSE { Returned(selectRoll(expression, parsed, advantageMode, pair),
                       <<pair.primary, pair.alternate>>) :
                pair \in rollWithAdvantage(parsed.diceGroups[1]) }
  ELSE { Returned(plainRoll(expression, parsed, advantageMode, results), results) :
           results \in rollAll(parsed.diceGroups) }

\* a service that rolls every group before it looks at the group count
rollOutcomesRollFirst(expression, advantageMode, parsed) ==
  IF parsed.kind = "ResourceLimitError"
  THEN {Thrown("ResourceLimitError", parsed.message)}
  ELSE IF ~parsed.isValid
  THEN {Thrown("ValidationError", join(parsed.validationErrors))}
  ELSE IF advantageMode # NONE
  THEN IF Len(parsed.diceGroups) # 1
       THEN { [Thrown("ValidationError",
                 "Advantage/disadvantage only supports single dice group (e.g., 1d20)")
                 EXCEPT !.rolled = results] :
                results \in rollAll(parsed.diceGroups) }
       ELSE { Returned(selectRoll(expression, parsed, advantageMode, pair),
                       <<pair.primary, pair.alternate>>) :
                pair \in rollWithAdvantage(parsed.diceGroups[1]) }
  ELSE { Returned(plainRoll(expression, parsed, advantageMode, results), results) :
           results \in rollAll(parsed.diceGroups) }

\* every outcome DiceService.roll(expression, advantageMode) can have, given
\* the value or error DiceParser.parse produced; rolled lists the results
\* DiceRoller returned, in call order
rollOutcomes(expression, advantageMode, parsed) ==
  IF parsed.kind = "ResourceLimitError"
  THEN {Thrown("ResourceLimitError", parsed.message)}
  ELSE IF ~parsed.isValid
  THEN {Thrown("ValidationError", join(parsed.validationErrors))}
  ELSE IF advantageMode # NONE
  THEN IF Len(parsed.diceGroups) # 1
       THEN {Thrown("ValidationError",
               "Advantage/disadvantage only supports single dice group (e.g., 1d20)")}
       ELSE { Returned(selectRoll(expression, parsed, advantageMode, pair),
                       <<pair.primary, pair.alternate>>) :
                pair \in rollWithAdvantage(parsed.diceGroups[1]) }
  ELSE { Returned(plainRoll(expression, parsed, advantageMode, results), results) :
           results \in rollAll(parsed.diceGroups) }


(***************************************************************************)
(* Input expressions.  An input is written from a list of items, each an   *)
(* optional sign followed by a body: an NdX token or an integer.  The list *)
(* is kept with the request so that a property can speak of the tokens the *)
(* caller wrote.                                                           *)
(***************************************************************************)
DiceBody(count, sides) ==
  [kind |-> "dice", text |-> decimal(count) \o <<"d">> \o decimal(sides),
   count |-> count, sides |-> sides, value |-> 0]

IntBody(value) ==
  [kind |-> "int", text |-> decimal(value), count |-> 0, sides |-> 0,
   value |-> value]

\* the NdX tokens an expression is written from: two valid groups, a zero
\* count, and one token past each resource limit
Bodies ==
  {DiceBody(2, 2), DiceBody(1, 3), DiceBody(0, 2),
   DiceBody(MAX_DICE + 1, 2), DiceBody(2, MAX_SIDES + 1)}

Signs == {<<>>, <<"+">>, <<"-">>}

Items == [sign : Signs, body : Bodies]

Modifier(sign, value) == [sign |-> sign, body |-> IntBody(value)]

\* the signed integers that end an expression
Tails ==
  {<<>>, <<Modifier(<<"+">>, 3)>>, <<Modifier(<<"+">>, 3), Modifier(<<"-">>, 1)>>}

SeqsUpTo(S, n) == UNION {[1..k -> S] : k \in 0..n}

\* NdX tokens written alone in an expression: zero sides, zero count and
\* sides, and a one-sided die
EdgeBodies == {DiceBody(2, 0), DiceBody(0, 0), DiceBody(3, 1)}

EdgeItems == [sign : Signs, body : EdgeBodies]

\* two groups of 600 dice each, within the limit of a group
BulkGroups ==
  <<[sign |-> <<>>, body |-> DiceBody(600, 1)],
    [sign |-> <<>>, body |-> DiceBody(600, 1)]>>

\* one die followed by two modifiers as large as the largest dice total
LargeModifiers ==
  <<[sign |-> <<>>, body |-> DiceBody(1, 3)],
    Modifier(<<"+">>, MAX_DICE * MAX_SIDES),
    Modifier(<<"+">>, MAX_DICE * MAX_SIDES)>>

\* the item lists of the input expressions
Inputs ==
  {g \o t : g \in SeqsUpTo(Items, MaxItems), t \in Tails}
    \cup {<<item>> \o t : item \in EdgeItems, t \in Tails}
    \cup {LargeModifiers}

\* the item lists sent to DiceParser.parse directly: the groups of 600 dice
\* are parsed and never rolled
ParseInputs == Inputs \cup {BulkGroups \o t : t \in Tails}

\* the item lists sent in a call that finds the cursor of the pattern where
\* a throw left it: those with fewer than MaxItems NdX tokens
FollowUps ==
  {items \in Inputs :
     Len(SelectSeq(items, LAMBDA it : it.body.kind = "dice")) < MaxItems}

\* the item lists a call to parse, and a call to roll, is made with when
\* DICE_PATTERN.lastIndex is cursor
parseInputsAt(cursor) == IF cursor = 0 THEN ParseInputs ELSE FollowUps

rollInputsAt(cursor) == IF cursor = 0 THEN Inputs ELSE FollowUps

\* expressions with no complete NdX token, sent as they are
Texts ==
  {<<"a", "b", "c">>, <<"2", "d">>, <<"d", "2">>, <<"2", "d", "-", "1">>,
   <<"2", "x", "2">>, <<" ", " ">>, <<"A", "b", "C", " ">>}

\* expressions that hold the one token 2d2 under another spelling or among
\* characters of no token, sent as they are
Phrases ==
  {<<"2", "D", "2">>, <<" ", "2", "d", "2", " ">>, <<"0", "2", "d", "2">>,
   <<"2", "d", "2", "a", "b", "c">>,
   <<"r", "o", "l", "l", " ", "2", "d", "2", " ", "p", "l", "e", "a", "s", "e">>}

\* the text of item i: in compact form the sign is attached and a blank
\* separates an unsigned item from the one before it; in spaced form blanks
\* surround every sign and every body
renderItem(item, i, spaced) ==
  IF spaced
  THEN (IF i > 1 THEN <<" ">> ELSE <<>>)
       \o (IF item.sign # <<>> THEN item.sign \o <<" ">> ELSE <<>>)
       \o item.body.text
  ELSE (IF i > 1 /\ item.sign = <<>> THEN <<" ">> ELSE <<>>)
       \o item.sign \o item.body.text

RECURSIVE renderFrom(_, _, _)
renderFrom(items, i, spaced) ==
  IF i > Len(items) THEN <<>>
  ELSE renderItem(items[i], i, spaced) \o renderFrom(items, i + 1, spaced)

render(items, spaced) == renderFrom(items, 1, spaced)

Styles == {"compact", "spaced", "upper", "padded"}

\* the expression a caller sends for an item list
spell(items, style) ==
  CASE style = "spaced" -> render(items, TRUE)
    [] style = "upper" -> toUpperCase(render(items, FALSE))
    [] style = "padded" -> <<" ">> \o render(items, FALSE) \o <<" ", " ">>
    [] OTHER -> render(items, FALSE)

(***************************************************************************)
(* State.                                                                  *)
(***************************************************************************)
VARIABLES
  phase,      \* "idle" before the call, "done" after it
  lastIndex,  \* DiceParser.DICE_PATTERN.lastIndex
  request,    \* the call: operation, expression, mode, the items written
              \* and the lastIndex the call found on entry
  parsed,     \* what DiceParser.parse returned or threw in the call
  outcome     \* what DiceService.roll returned or threw

vars == <<phase, lastIndex, request, parsed, outcome>>

NoRequest ==
  [op |-> "none", expression |-> <<>>, advantageMode |-> NONE,
   items |-> <<>>, style |-> "compact", entry |-> 0]

NoOutcome == Thrown("none", "")

Init ==
  /\ phase = "idle"
  /\ lastIndex = 0
  /\ request = NoRequest
  /\ parsed = createInvalid(<<>>, <<>>)
  /\ outcome = NoOutcome

\* the state after a call that sent expression and in which parse ended in p
Called(op, items, style, advantageMode, expression, p) ==
  /\ phase' = "done"
  /\ request' = [op |-> op, expression |-> expression,
                 advantageMode |-> advantageMode, items |-> items,
                 style |-> style, entry |-> lastIndex]
  /\ parsed' = p.result
  /\ lastIndex' = p.lastIndex

ParseCall(items, style, expression) ==
  /\ Called("parse", items, style, NONE, expression,
            parseFrom(expression, lastIndex))
  /\ outcome' = NoOutcome

\* a direct call DiceParser.parse(expression)
Parse(items, style) == ParseCall(items, style, spell(items, style))

RollCall(items, advantageMode, expression) ==
  /\ Called("roll", items, "compact", advantageMode, expression,
            parseFrom(expression, lastIndex))
  /\ outcome' \in rollOutcomes(expression, advantageMode, parsed')

\* a call diceService.roll(expression, advantageMode)
Roll(items, advantageMode) ==
  RollCall(items, advantageMode, spell(items, "compact"))

\* the style recorded for a text sent as it is
textStyle(text) == IF text \in Phrases THEN "phrase" ELSE "text"

\* a direct call DiceParser.parse(text) with a text of no item list
ParseText(text) ==
  /\ Called("parse", <<>>, textStyle(text), NONE, text,
            parseFrom(text, lastIndex))
  /\ outcome' = NoOutcome

\* a call diceService.roll(text, advantageMode) with a text of no item list
RollText(text, advantageMode) ==
  /\ Called("roll", <<>>, textStyle(text), advantageMode, text,
            parseFrom(text, lastIndex))
  /\ outcome' \in rollOutcomes(text, advantageMode, parsed')

\* the call has returned or thrown and the next request can come in: the
\* locals of the call are gone, DICE_PATTERN.lastIndex stays as the call
\* left it
Return ==
  /\ phase = "done"
  /\ phase' = "idle"
  /\ request' = NoRequest
  /\ parsed' = createInvalid(<<>>, <<>>)
  /\ outcome' = NoOutcome
  /\ UNCHANGED lastIndex

Call ==
  /\ phase = "idle"
  /\ \/ \E items \in parseInputsAt(lastIndex), style \in Styles :
          Parse(items, style)
     \/ \E items \in rollInputsAt(lastIndex), advantageMode \in AdvantageMode :
          Roll(items, advantageMode)
     \/ \E text \in Texts \cup Phrases : ParseText(text)
     \/ \E text \in Texts \cup Phrases, advantageMode \in AdvantageMode :
          RollText(text, advantageMode)

Next == Call \/ Return

Spec == Init /\ [][Next]_vars

(***************************************************************************)
(* Vocabulary of the properties.                                           *)
(***************************************************************************)
Done == phase = "done"

Parsed == Done /\ request.op = "parse"

Rolled == Done /\ request.op = "roll"

Record == Rolled /\ outcome.kind = "record"

\* the NdX tokens and the signed integers the caller wrote, in order
DiceItems(items) == SelectSeq(items, LAMBDA it : it.body.kind = "dice")

ModifierItems(items) ==
  SelectSeq(items, LAMBDA it : it.body.kind = "int" /\ it.sign # <<>>)

WithinLimits(body) ==
  /\ body.count >= 1 /\ body.count <= MAX_DICE
  /\ body.sides >= 1 /\ body.sides <= MAX_SIDES

OverLimit(body) == body.count > MAX_DICE \/ body.sides > MAX_SIDES

WrittenGroups(items) ==
  LET ds == DiceItems(items)
  IN  [i \in 1..Len(ds) |-> [count |-> ds[i].body.count, sides |-> ds[i].body.sides]]

WrittenModifiers(items) ==
  LET ms == ModifierItems(items)
  IN  [i \in 1..Len(ms) |->
         IF ms[i].sign = <<"-">> THEN 0 - ms[i].body.value ELSE ms[i].body.value]

WrittenNotations(items) ==
  LET ds == DiceItems(items)
  IN  [i \in 1..Len(ds) |-> ds[i].body.text]

\* NdX groups within the limits joined by '+' or '-', then signed integers
CompactCompound(items) ==
  /\ Len(items) >= 1
  /\ items[1].body.kind = "dice" /\ items[1].sign = <<>>
  /\ \A i \in 2..Len(items) : items[i].sign # <<>>
  /\ \A i \in 1..Len(items) :
       items[i].body.kind = "dice" => WithinLimits(items[i].body)

\* same groups, modifiers and validity
SameParse(p, q) ==
  /\ p.kind = q.kind
  /\ p.diceGroups = q.diceGroups
  /\ p.modifiers = q.modifiers
  /\ p.isValid = q.isValid

\* same in everything but the original field
SameButOriginal(p, q) ==
  /\ SameParse(p, q)
  /\ p.validationErrors = q.validationErrors
  /\ p.message = q.message

Subtotals(results) == [i \in 1..Len(results) |-> results[i].subtotal]

TotalIsSum(record) ==
  record.total = sum(Subtotals(record.results)) + sum(record.modifiers)

(***************************************************************************)
(* C1..C10                                                                 *)
(***************************************************************************)
\* C1: for a compact compound expression (NdX groups joined by '+' or '-',
\* then signed integers) parse yields one dice group per NdX token in order
\* and exactly the written signed integers as modifiers, and a roll in mode
\* none returns one result per NdX token in that order with
\* total = sum of subtotals + sum of the written modifiers.
C1_CompoundOneGroupPerToken ==
  (Done /\ request.style = "compact" /\ CompactCompound(request.items)) =>
    /\ parsed.kind = "expression" /\ parsed.isValid
    /\ parsed.diceGroups = WrittenGroups(request.items)
    /\ parsed.modifiers = WrittenModifiers(request.items)
    /\ (request.op = "roll" /\ request.advantageMode = NONE) =>
         /\ outcome.kind = "record"
         /\ [i \in 1..Len(outcome.record.results) |->
               outcome.record.results[i].notation]
              = WrittenNotations(request.items)
         /\ outcome.record.total
              = sum(Subtotals(outcome.record.results))
                + sum(WrittenModifiers(request.items))

\* C2: a roll in advantage or disadvantage mode of an expression written with
\* two or more NdX tokens (all within the limits) ends in a ValidationError.
C2_MultiGroupAdvantageRejected ==
  (/\ Rolled
   /\ request.advantageMode # NONE
   /\ Len(DiceItems(request.items)) >= 2
   /\ \A i \in 1..Len(request.items) :
        request.items[i].body.kind = "dice" => WithinLimits(request.items[i].body))
    => outcome.kind = "ValidationError"

\* C3: whenever some NdX token of the input, at any position (the first
\* token of the expression or one after a '+' or '-' sign), has
\* count > 1000 or sides > 10000, parse raises a ResourceLimitError.
C3_OverLimitAlwaysRaises ==
  (/\ Done
   /\ request.items # <<>> /\ request.items[1].sign = <<>>
   /\ \E i \in 1..Len(request.items) :
        request.items[i].body.kind = "dice" /\ OverLimit(request.items[i].body))
    => parsed.kind = "ResourceLimitError"

\* C4: the spaced spelling of a compact compound expression (blanks added
\* around its signs and tokens) parses to the same dice groups, modifiers
\* and validity as the compact spelling.
C4_SpacedParsesAsCompact ==
  (Parsed /\ request.style = "spaced" /\ CompactCompound(request.items)) =>
    SameParse(parsed, parse(spell(request.items, "compact")))

\* C5: parsing an expression, its upper-cased form and the expression padded
\* with leading and trailing blanks gives the same dice groups, modifiers,
\* validity and errors.
C5_CaseAndPaddingInsensitive ==
  Parsed =>
    /\ SameButOriginal(parsed, parse(toUpperCase(request.expression)))
    /\ SameButOriginal(parsed, parse(toLowerCase(request.expression)))
    /\ SameButOriginal(parsed, parse(<<" ">> \o request.expression \o <<" ">>))
    /\ SameButOriginal(parsed, parse(trim(request.expression)))

C5_Witness ==
  /\ Parsed /\ parsed.isValid
  /\ request.style \in {"upper", "padded"}
  /\ request.expression # spell(request.items, "compact")
  /\ Len(parsed.diceGroups) = 2 /\ parsed.modifiers # <<>>

\* C6: every record roll returns, and its nested alternate, has
\* total = sum of its results' subtotals + sum of its modifiers.
C6_TotalIsSum ==
  Record =>
    /\ TotalIsSum(outcome.record)
    /\ \A i \in 1..Len(outcome.record.alternateRoll) :
         TotalIsSum(outcome.record.alternateRoll[i])

C6_Witness ==
  /\ Record /\ request.advantageMode # NONE
  /\ outcome.record.modifiers # <<>>
  /\ outcome.record.alternateRoll # <<>>
  /\ outcome.record.total # outcome.record.alternateRoll[1].total

\* the dice group the k-th call of the roller was given
RolledGroup(k) ==
  IF request.advantageMode = NONE THEN parsed.diceGroups[k]
  ELSE parsed.diceGroups[1]

\* C7: each result the roller returns for a group within the limits has
\* exactly count rolls, each in 1..sides, and subtotal equal to their sum,
\* hence between count and count * sides.
C7_RollsInRange ==
  Record =>
    \A k \in 1..Len(outcome.rolled) :
      LET r == outcome.rolled[k]
          g == RolledGroup(k)
      IN  /\ Len(r.rolls) = g.count
          /\ \A i \in 1..Len(r.rolls) : r.rolls[i] \in 1..g.sides
          /\ r.subtotal = sum(r.rolls)
          /\ g.count <= r.subtotal /\ r.subtotal <= g.count * g.sides

C7_Witness ==
  /\ Record /\ Len(outcome.rolled) = 2
  /\ outcome.rolled[1].rolls = <<2, 1>>
  /\ outcome.rolled[2].rolls = <<3>>

\* the totals of the first and of the second roll of the group
TotalA == outcome.rolled[1].subtotal + sum(parsed.modifiers)

TotalB == outcome.rolled[2].subtotal + sum(parsed.modifiers)

\* C8: in advantage mode the top-level record is the first roll when
\* totalA >= totalB and the second otherwise, the other roll is the
\* alternate, and the selected total is never below the alternate's.
C8_AdvantageSelectsLarger ==
  (Record /\ request.advantageMode = ADVANTAGE) =>
    LET first == outcome.rolled[1]
        second == outcome.rolled[2]
        alt == outcome.record.alternateRoll[1]
    IN  /\ outcome.record.total >= alt.total
        /\ TotalA >= TotalB =>
             /\ outcome.record.results = <<first>> /\ outcome.record.total = TotalA
             /\ alt.results = <<second>> /\ alt.total = TotalB
        /\ TotalA < TotalB =>
             /\ outcome.record.results = <<second>> /\ outcome.record.total = TotalB
             /\ alt.results = <<first>> /\ alt.total = TotalA

C8_Witness ==
  /\ Record /\ request.advantageMode = ADVANTAGE
  /\ TotalA = TotalB
  /\ outcome.rolled[1] # outcome.rolled[2]
  /\ outcome.record.results = <<outcome.rolled[1]>>

\* C9: in disadvantage mode the top-level record is the first roll when
\* totalA <= totalB and the second otherwise, the other roll is the
\* alternate, and the selected total is never above the alternate's.
C9_DisadvantageSelectsSmaller ==
  (Record /\ request.advantageMode = DISADVANTAGE) =>
    LET first == outcome.rolled[1]
        second == outcome.rolled[2]
        alt == outcome.record.alternateRoll[1]
    IN  /\ outcome.record.total <= alt.total
        /\ TotalA <= TotalB =>
             /\ outcome.record.results = <<first>> /\ outcome.record.total = TotalA
             /\ alt.results = <<second>> /\ alt.total = TotalB
        /\ TotalA > TotalB =>
             /\ outcome.record.results = <<second>> /\ outcome.record.total = TotalB
             /\ alt.results = <<first>> /\ alt.total = TotalA

C9_Witness ==
  /\ Record /\ request.advantageMode = DISADVANTAGE
  /\ TotalA = TotalB
  /\ outcome.rolled[1] # outcome.rolled[2]
  /\ outcome.record.results = <<outcome.rolled[1]>>
  /\ parsed.modifiers # <<>>

\* C10: a returned record has an alternate exactly when the requested mode is
\* advantage or disadvantage, and the alternate has no alternate of its own.
C10_AlternateIffAdvantageMode ==
  Record =>
    /\ (outcome.record.alternateRoll # <<>>) <=> (request.advantageMode # NONE)
    /\ Len(outcome.record.alternateRoll) <= 1
    /\ \A i \in 1..Len(outcome.record.alternateRoll) :
         outcome.record.alternateRoll[i].alternateRoll = <<>>

C10_Witness ==
  /\ Record /\ request.advantageMode = DISADVANTAGE
  /\ Len(outcome.record.alternateRoll) = 1
  /\ outcome.record.alternateRoll[1].results # outcome.record.results

(***************************************************************************)
(* C11..C20                                                                *)
(***************************************************************************)
\* the number of values drawn from the random source in the call
Draws == sum([k \in 1..Len(outcome.rolled) |-> Len(outcome.rolled[k].rolls)])

\* C11: in advantage or disadvantage mode the group is rolled exactly twice,
\* 2 * count values are drawn, and the top-level results and the alternate's
\* results are the two rolls, one each.
C11_BothRollsReported ==
  (Record /\ request.advantageMode # NONE) =>
    LET alt == outcome.record.alternateRoll[1]
    IN  /\ Len(outcome.rolled) = 2
        /\ Draws = 2 * parsed.diceGroups[1].count
        /\ \/ /\ outcome.record.results = <<outcome.rolled[1]>>
              /\ alt.results = <<outcome.rolled[2]>>
           \/ /\ outcome.record.results = <<outcome.rolled[2]>>
              /\ alt.results = <<outcome.rolled[1]>>

C11_Witness ==
  /\ Record /\ request.advantageMode = ADVANTAGE
  /\ Draws = 4
  /\ outcome.rolled[1].rolls = <<1, 1>>
  /\ outcome.rolled[2].rolls = <<2, 1>>
  /\ outcome.record.results = <<outcome.rolled[2]>>
  /\ outcome.record.alternateRoll[1].results = <<outcome.rolled[1]>>

\* no NdX token past a resource limit was written
NoOverLimitToken ==
  \A i \in 1..Len(request.items) :
    request.items[i].body.kind = "dice" => ~OverLimit(request.items[i].body)

\* some NdX token of the expression was written with a zero count or zero
\* sides, or the expression opens with a minus sign before its NdX token
BadDiceToken ==
  \E i \in 1..Len(request.items) :
    LET item == request.items[i]
    IN  /\ item.body.kind = "dice"
        /\ \/ item.body.count = 0
           \/ item.body.sides = 0
           \/ i = 1 /\ item.sign = <<"-">>

\* C12: parse returns an invalid expression with at least one error for an
\* empty or blank input, for an input with no complete NdX token, and for
\* an input one of whose dice tokens has a zero or negative count or sides.
C12_MalformedIsInvalid ==
  (Done /\ request.style # "spaced"
        /\ \/ trim(request.expression) = <<>>
           \/ request.style = "text"
           \/ BadDiceToken /\ NoOverLimitToken)
    => /\ parsed.kind = "expression"
       /\ ~parsed.isValid
       /\ parsed.validationErrors # <<>>

\* C13: for an input in which no NdX token exceeds the resource limits, parse
\* returns an expression, valid or invalid, and raises nothing; what parse
\* raises is a ResourceLimitError.
C13_MalformedNeverRaises ==
  Done =>
    /\ NoOverLimitToken => parsed.kind = "expression"
    /\ parsed.kind \in {"expression", "ResourceLimitError"}

C13_Witness ==
  /\ Parsed /\ NoOverLimitToken
  /\ parsed.kind = "expression" /\ ~parsed.isValid
  /\ Len(parsed.validationErrors) = 3

\* C14: every expression parse returns has isValid exactly when it has no
\* errors and at least one dice group, and an invalid one has an error.
C14_ValidIffNoErrorsAndGroups ==
  (Done /\ parsed.kind = "expression") =>
    /\ parsed.isValid <=>
         (parsed.validationErrors = <<>> /\ parsed.diceGroups # <<>>)
    /\ ~parsed.isValid => parsed.validationErrors # <<>>

C14_Witness ==
  /\ Parsed /\ parsed.kind = "expression"
  /\ request.items # <<>> /\ DiceItems(request.items) = <<>>
  /\ parsed.diceGroups = <<>>
  /\ ~parsed.isValid
  /\ Len(parsed.validationErrors) = 1

OneSidedDie ==
  /\ request.items # <<>>
  /\ request.items[1].sign = <<>>
  /\ request.items[1].body.kind = "dice"
  /\ request.items[1].body.sides = 1
  /\ request.items[1].body.count \in 1..MAX_DICE
  /\ Len(DiceItems(request.items)) = 1

RECURSIVE MessagesUpTo(_, _)
\* the first n messages of errors, in order, each two separated by "; "
MessagesUpTo(errors, n) ==
  IF n = 0 THEN ""
  ELSE IF n = 1 THEN errors[1].message
  ELSE MessagesUpTo(errors, n - 1) \o "; " \o errors[n].message

\* the expression was written as the token 0d0, followed by modifiers only
ZeroZero ==
  /\ request.items # <<>>
  /\ request.items[1] = [sign |-> <<>>, body |-> DiceBody(0, 0)]
  /\ Len(DiceItems(request.items)) = 1

\* C18: when parse returns an invalid expression, the ValidationError of roll
\* carries every collected message, in collection order; for "0d0" these
\* are the bad count, the bad sides and the missing dice group.
C18_AllMessagesCarried ==
  (Rolled /\ parsed.kind = "expression" /\ ~parsed.isValid) =>
    /\ outcome.kind = "ValidationError"
    /\ outcome.message =
         MessagesUpTo(parsed.validationErrors, Len(parsed.validationErrors))
    /\ ZeroZero =>
         outcome.message =
           "Invalid dice count: 0. Must be positive.; "
             \o "Invalid die sides: 0. Must be positive.; "
             \o "Expression must contain at least one dice group (e.g., 1d6)"

C18_Witness ==
  /\ Rolled /\ ZeroZero
  /\ Len(parsed.validationErrors) = 3
  /\ outcome.kind = "ValidationError"
  /\ outcome.message =
       "Invalid dice count: 0. Must be positive.; "
         \o "Invalid die sides: 0. Must be positive.; "
         \o "Expression must contain at least one dice group (e.g., 1d6)"

\* item i is an NdX token past a limit that the scan reaches as a token: it
\* is written unsigned, at the start or after a blank
ReachedOverLimit(i) ==
  /\ request.items[i].sign = <<>>
  /\ request.items[i].body.kind = "dice"
  /\ OverLimit(request.items[i].body)

\* C19: when the scan of a compactly written expression reaches its first
\* NdX token past a limit, parse raises ResourceLimitError for that token,
\* whatever errors earlier tokens left, and the scan stops at the end of
\* that token; no expression is returned.
C19_LimitShortCircuits ==
  (Done /\ request.style = "compact") =>
    \A i \in 1..Len(request.items) :
      (ReachedOverLimit(i) /\ \A j \in 1..(i - 1) : ~ReachedOverLimit(j)) =>
        /\ parsed.kind = "ResourceLimitError"
        /\ parsed.message =
             IF request.items[i].body.count > MAX_DICE
             THEN "Dice count exceeds maximum of 1000"
             ELSE "Die sides exceed maximum of 10000"
        /\ lastIndex = Len(render(SubSeq(request.items, 1, i), FALSE))

C19_Witness ==
  /\ Parsed /\ request.style = "compact"
  /\ Len(request.items) = 3
  /\ request.items[1] = [sign |-> <<>>, body |-> DiceBody(0, 2)]
  /\ ReachedOverLimit(2)
  /\ parsed.kind = "ResourceLimitError"
  /\ lastIndex = 10
  /\ Len(request.expression) > 10

\* C20: when roll ends in a ValidationError or a ResourceLimitError, the
\* roller was not called: no value was drawn from the random source.
C20_NoRollOnFailure ==
  (Rolled /\ outcome.kind \in {"ValidationError", "ResourceLimitError"}) =>
    /\ outcome.rolled = <<>>
    /\ Draws = 0

C20_Witness ==
  /\ Rolled /\ request.advantageMode # NONE
  /\ parsed.kind = "expression" /\ parsed.isValid
  /\ Len(parsed.diceGroups) = 2
  /\ outcome.kind = "ValidationError"
  /\ outcome.rolled = <<>>


(***************************************************************************)
(* C21..C30                                                                *)
(***************************************************************************)
\* C21: in every expression that parses as valid, the counts of all its
\* dice groups together do not exceed 1000.
C21_TotalDiceCapped ==
  (Done /\ parsed.kind = "expression" /\ parsed.isValid) =>
    sum([k \in 1..Len(parsed.diceGroups) |-> parsed.diceGroups[k].count])
      <= MAX_DICE

\* the text holds a token of the notation: digits, d, digits, or a sign
\* followed by a digit
HasToken(text) ==
  \E i \in 1..(Len(text) - 1) :
    \/ text[i] \in {"+", "-"} /\ text[i + 1] \in Digits
    \/ /\ i >= 2
       /\ text[i] \in {"d", "D"}
       /\ text[i - 1] \in Digits
       /\ text[i + 1] \in Digits

\* the expression has tokens, none of which the scan takes as a dice group
\* with positive count and sides: its items are signed, or NdX tokens with a
\* zero, or it is a text with no complete NdX token
TokensButNoGroup ==
  /\ HasToken(request.expression)
  /\ \/ request.style = "text"
     \/ /\ request.style \in {"compact", "upper", "padded"}
        /\ request.items # <<>>
        /\ \A i \in 1..Len(request.items) :
             \/ request.items[i].sign # <<>>
             \/ /\ request.items[i].body.kind = "dice"
                /\ ~OverLimit(request.items[i].body)
                /\ \/ request.items[i].body.count = 0
                   \/ request.items[i].body.sides = 0

\* some collected error has the message
HasMessage(errors, message) ==
  \E k \in 1..Len(errors) : errors[k].message = message

\* the three failure classes and their messages, noGroup being the message
\* for tokens without a dice group
FailureClasses(noGroup) ==
  Done =>
    /\ trim(request.expression) = <<>> =>
         /\ parsed.kind = "expression" /\ ~parsed.isValid
         /\ Len(parsed.validationErrors) = 1
         /\ parsed.validationErrors[1].message = "Expression cannot be empty"
    /\ (trim(request.expression) # <<>> /\ ~HasToken(request.expression)) =>
         /\ parsed.kind = "expression" /\ ~parsed.isValid
         /\ Len(parsed.validationErrors) = 1
         /\ parsed.validationErrors[1].message = "Invalid dice notation format"
    /\ TokensButNoGroup =>
         /\ parsed.kind = "expression" /\ ~parsed.isValid
         /\ HasMessage(parsed.validationErrors, noGroup)

\* C22 as stated: an empty or blank input gives the one error "Expression
\* cannot be empty", an input with no token "Invalid dice notation format",
\* and an input with tokens but no valid dice group an error whose message
\* is "Expression must contain at least one dice group".
C22_MessageAsStated ==
  FailureClasses("Expression must contain at least one dice group")

\* C22: the same classes, the message of the third being "Expression must
\* contain at least one dice group (e.g., 1d6)".
C22_MessageNamesClass ==
  FailureClasses("Expression must contain at least one dice group (e.g., 1d6)")

C22_Witness ==
  /\ Parsed /\ TokensButNoGroup
  /\ request.style = "compact"
  /\ Len(request.items) = 1 /\ request.items[1].body.kind = "int"
  /\ Len(parsed.validationErrors) = 1
  /\ parsed.validationErrors[1].message =
       "Expression must contain at least one dice group (e.g., 1d6)"

\* C23: the notation of every result is count, a lower-case d, sides, written
\* from the parsed integers; parsing it again yields the group it was rolled
\* for; and 2D2, " 2d2 ", 02d2 and 2d2 among other characters all give the
\* notation 2d2.
C23_NotationRoundTrip ==
  Record =>
    \A k \in 1..Len(outcome.rolled) :
      LET notation == outcome.rolled[k].notation
          again == parse(notation)
      IN  /\ notation = decimal(RolledGroup(k).count) \o <<"d">>
                          \o decimal(RolledGroup(k).sides)
          /\ again.kind = "expression" /\ again.isValid
          /\ again.diceGroups = <<RolledGroup(k)>>
          /\ again.modifiers = <<>>
          /\ request.style = "phrase" => notation = <<"2", "d", "2">>

C23_Witness ==
  /\ Record
  /\ request.expression = <<"0", "2", "d", "2">>
  /\ outcome.rolled[1].notation = <<"2", "d", "2">>
  /\ outcome.record.results[1].notation = <<"2", "d", "2">>

C25_CallsIndependent ==
  Done =>
    /\ parsed = parse(request.expression)
    /\ Rolled =>
         outcome \in rollOutcomes(request.expression, request.advantageMode,
                                  parse(request.expression))

C25_Witness ==
  /\ Parsed
  /\ request.entry > Len(request.expression)
  /\ parsed.kind = "expression" /\ parsed.isValid
  /\ parsed.diceGroups = <<[count |-> 1, sides |-> 3]>>
  /\ parsed.modifiers = <<3, -1>>
  /\ lastIndex = 0

\* the largest magnitude among the modifiers, 0 when there is none
RECURSIVE LargestMagnitude(_)
LargestMagnitude(modifiers) ==
  IF modifiers = <<>> THEN 0
  ELSE LET m == IF modifiers[1] < 0 THEN 0 - modifiers[1] ELSE modifiers[1]
           rest == LargestMagnitude(Tail(modifiers))
       IN  IF m > rest THEN m ELSE rest

\* the magnitudes of the modifiers added up
RECURSIVE TotalMagnitude(_)
TotalMagnitude(modifiers) ==
  IF modifiers = <<>> THEN 0
  ELSE (IF modifiers[1] < 0 THEN 0 - modifiers[1] ELSE modifiers[1])
         + TotalMagnitude(Tail(modifiers))

Magnitude(n) == IF n < 0 THEN 0 - n ELSE n

\* the largest dice part the rolled groups allow: count * sides added up
LargestDicePart ==
  IF request.advantageMode = NONE
  THEN sum([k \in 1..Len(parsed.diceGroups) |->
              parsed.diceGroups[k].count * parsed.diceGroups[k].sides])
  ELSE parsed.diceGroups[1].count * parsed.diceGroups[1].sides

C27_ScanAdvancesRollDrawsCounts ==
  /\ Done =>
       LET text == normalize(request.expression)
       IN  /\ \A from \in 0..Len(text) :
                LET m == exec(text, from)
                IN  m.found =>
                      /\ m.index >= from
                      /\ m.end > m.index
                      /\ m.end <= Len(text)
           /\ ~exec(text, Len(text)).found
  /\ (Record /\ request.advantageMode = NONE) =>
       /\ Len(outcome.rolled) = Len(parsed.diceGroups)
       /\ \A k \in 1..Len(outcome.rolled) :
            /\ Len(outcome.rolled[k].rolls) = parsed.diceGroups[k].count
            /\ parse(outcome.rolled[k].notation).diceGroups
                 = <<parsed.diceGroups[k]>>
       /\ Draws = sum([k \in 1..Len(parsed.diceGroups) |->
                         parsed.diceGroups[k].count])
       /\ outcome.record.results = outcome.rolled

C27_Witness ==
  /\ Record /\ request.advantageMode = NONE
  /\ parsed.diceGroups = <<[count |-> 2, sides |-> 2], [count |-> 1, sides |-> 3]>>
  /\ Draws = 3
  /\ Len(outcome.rolled[1].rolls) = 2
  /\ Len(outcome.rolled[2].rolls) = 1

\* C28: every dice group handed to the roller, in mode none and in advantage
\* or disadvantage mode, has 1 <= count <= 1000 and 1 <= sides <= 10000, so
\* the range each value is drawn from is not empty.
C28_RolledGroupsWithinLimits ==
  Record =>
    /\ outcome.rolled # <<>>
    /\ \A k \in 1..Len(outcome.rolled) :
         /\ 1 <= RolledGroup(k).count /\ RolledGroup(k).count <= MAX_DICE
         /\ 1 <= RolledGroup(k).sides /\ RolledGroup(k).sides <= MAX_SIDES
         /\ randomInt(1, RolledGroup(k).sides + 1) # {}

C28_Witness ==
  /\ Record /\ request.advantageMode = ADVANTAGE
  /\ RolledGroup(1) = [count |-> 3, sides |-> 1]
  /\ Len(outcome.rolled) = 2

\* C29: a text that holds the token 2d2 among characters of no token parses
\* as valid with that one group, and the error "Invalid dice notation
\* format" is given only for a text with no token at all.
C29_NonTokenCharactersSkipped ==
  Done =>
    /\ request.style = "phrase" =>
         /\ parsed.kind = "expression" /\ parsed.isValid
         /\ parsed.diceGroups = <<[count |-> 2, sides |-> 2]>>
         /\ parsed.modifiers = <<>>
         /\ parsed.validationErrors = <<>>
    /\ (/\ parsed.kind = "expression"
        /\ HasMessage(parsed.validationErrors, "Invalid dice notation format"))
         => ~HasToken(request.expression)

C29_Witness ==
  /\ Parsed /\ request.style = "phrase"
  /\ Len(request.expression) = 15
  /\ request.expression[1] = "r"
  /\ parsed.isValid

\* C30: in advantage and disadvantage mode the alternate record has the
\* mode, the expression and the modifiers of the top-level record and no
\* alternate of its own; every top-level record has the requested mode and
\* the requested expression.
C30_AlternateSharesRequest ==
  Record =>
    /\ outcome.record.advantageMode = request.advantageMode
    /\ outcome.record.expression = request.expression
    /\ request.advantageMode # NONE =>
         LET alt == outcome.record.alternateRoll[1]
         IN  /\ alt.advantageMode = request.advantageMode
             /\ alt.advantageMode # NONE
             /\ alt.expression = outcome.record.expression
             /\ alt.modifiers = outcome.record.modifiers
             /\ alt.alternateRoll = <<>>

C30_Witness ==
  /\ Record /\ request.advantageMode = DISADVANTAGE
  /\ outcome.record.modifiers = <<3, -1>>
  /\ outcome.record.alternateRoll[1].advantageMode = DISADVANTAGE
  /\ outcome.record.alternateRoll[1].modifiers = <<3, -1>>
  /\ outcome.record.alternateRoll[1].total # outcome.record.total


====
